---- MODULE Spec2Model ----
(***************************************************************************)
(* A model of di-asset-extractor: the Netease LZ4 block decoder, the pack  *)
(* index reader, the pack file enumeration and the sprite extraction       *)
(* orchestrator.  Byte strings are sequences of 0..255, indexed from 0 in  *)
(* the source and from 1 here; text is a sequence of one-character         *)
(* strings.                                                                *)
(***************************************************************************)
EXTENDS Integers, Sequences, FiniteSets, TLC

VARIABLES
    \* decompress_lz4_block (mpk.py): its arguments, locals, the position in
    \* the function, the returned bytes, the number of passes of the outer
    \* loop so far, and the plain text the input block was encoded from
    data, uncompressed_size, result, src_pos, dst_pos, lz_pc, lz_out,
    lz_passes, plain,
    \* read_mpkinfo (mpk.py): the index file's bytes, the file position, the
    \* declared count, the iterations done, the entries list, the position in
    \* the function, and the entries the file was written from
    mpkinfo, f_pos, num_files, ix_done, entries, ix_pc, ix_src,
    \* get_mpk_files (mpk.py): the index file's name, the pack files on disk,
    \* the locals basename, i and mpk_files, and the position in the function
    mpkinfo_path, disk, basename, gf_i, mpk_files, gf_pc,
    \* extract_sprites (extract.py): the files it runs on, the position in
    \* the function, the exception that left it, its locals (entries and
    \* mpk_files are those above), whether the output directory was made, the
    \* PNG files written, the frames, frame index and atlas of the current
    \* descriptor, and the returned pair
    world, pc, error, repo, plist_entries, output_dir_created, png_files,
    sprite_names, sprites_extracted, sprites_failed, texture_cache, idx,
    frames, fi, atlas, ret,
    \* the run so far: the frames of the descriptors parsed, the descriptors
    \* that could not be read or parsed, the texture lookups made, the sprites
    \* that reached the choice of a file name, and what the last step did
    total_frames, unparsed, tex_log, emitted, ev,
    \* ResourceRepository._parse (repository.py): the catalog bytes, offset,
    \* the two tables, the entries list, the position in the function, and
    \* for each entry kept the offsets its encoding starts and ends at
    rp_data, rp_offset, resource_types, folder_paths, rp_entries, rp_pc, rp_spans,
    \* the records the catalog bytes were written from
    rp_src,
    \* decode_texture (texture.py): the texture bytes, the slice count of the
    \* header, the slice headers parsed with the offset each was read at, the
    \* parser's offset and loop index, the position in the function, the slice
    \* chosen, the offset its block is read at, and the result
    tx_data, slice_count, slices, tx_offset, tx_i, tx_pc, mip_level,
    tx_block_offset, tx_result, tx_decodes

lzVars == <<data, uncompressed_size, result, src_pos, dst_pos, lz_pc, lz_out,
            lz_passes, plain>>

ixVars == <<mpkinfo, f_pos, num_files, ix_done, entries, ix_pc, ix_src>>

gfVars == <<mpkinfo_path, disk, basename, gf_i, mpk_files, gf_pc>>

ixOwn == <<mpkinfo, f_pos, num_files, ix_done, ix_pc, ix_src>>

gfOwn == <<mpkinfo_path, disk, basename, gf_i, gf_pc>>

exVars == <<world, pc, error, repo, plist_entries, output_dir_created, png_files,
            sprite_names, sprites_extracted, sprites_failed, texture_cache, idx,
            frames, fi, atlas, ret, total_frames, unparsed, tex_log, emitted, ev>>

rpVars == <<rp_data, rp_offset, resource_types, folder_paths, rp_entries, rp_pc,
            rp_spans, rp_src>>

txVars == <<tx_data, slice_count, slices, tx_offset, tx_i, tx_pc, mip_level,
            tx_block_offset, tx_result, tx_decodes>>

vars == <<lzVars, ixVars, gfVars, exVars, rpVars, txVars>>

\* The decoder not in use.
LzIdle ==
    /\ data = <<>> /\ uncompressed_size = 0 /\ plain = <<>> /\ result = <<>>
    /\ src_pos = 0 /\ dst_pos = 0 /\ lz_pc = "idle" /\ lz_out = <<>>
    /\ lz_passes = 0

\* The reader not in use.
IxIdle ==
    /\ mpkinfo = <<>> /\ f_pos = 0 /\ num_files = 0 /\ ix_done = 0
    /\ entries = <<>> /\ ix_pc = "idle" /\ ix_src = <<>>

\* The catalog parser not in use.
RpIdle ==
    /\ rp_data = <<>> /\ rp_offset = 0 /\ resource_types = <<>> /\ folder_paths = <<>>
    /\ rp_entries = <<>> /\ rp_pc = "idle" /\ rp_spans = <<>> /\ rp_src = <<>>

\* The texture decoder not in use.
TxIdle ==
    /\ tx_data = <<>> /\ slice_count = 0 /\ slices = <<>> /\ tx_offset = 0
    /\ tx_i = 0 /\ tx_pc = "idle" /\ mip_level = 0 /\ tx_block_offset = 0
    /\ tx_result = "none" /\ tx_decodes = FALSE

\* The orchestrator not in use.
ExIdle ==
    /\ world = <<>> /\ pc = "idle" /\ error = "none" /\ repo = [kind |-> "None"]
    /\ plist_entries = <<>> /\ output_dir_created = FALSE /\ png_files = {}
    /\ sprite_names = <<>> /\ sprites_extracted = 0 /\ sprites_failed = 0
    /\ texture_cache = <<>> /\ idx = 0 /\ frames = <<>> /\ fi = 0
    /\ atlas = [kind |-> "None"] /\ ret = <<>> /\ total_frames = 0 /\ unparsed = 0
    /\ tex_log = <<>> /\ emitted = <<>> /\ ev = "idle"

\* The enumeration not in use.
GfIdle ==
    /\ mpkinfo_path = <<>> /\ disk = {} /\ basename = <<>> /\ gf_i = 0
    /\ mpk_files = <<>> /\ gf_pc = "idle"

----------------------------------------------------------------------------
(* Generic helpers *)

Min2(a, b) == IF a < b THEN a ELSE b

Min3(a, b, c) == Min2(a, Min2(b, c))

\* s[lo:hi] of Python for 0 <= lo: the elements at 0-based positions lo..hi-1,
\* clipped to the length of s.
Slice(s, lo, hi) ==
    LET h == Min2(hi, Len(s))
    IN  IF lo >= h THEN <<>> ELSE [i \in 1..(h - lo) |-> s[lo + i]]

Zeros(n) == [i \in 1..n |-> 0]

\* Whether 0-based index i addresses an element of s.
InBounds(s, i) == i >= 0 /\ i < Len(s)

(* Text: sequences of one-character strings. *)

UpperChars == <<"A", "B", "C", "D", "E", "F", "G", "H", "I", "J", "K", "L", "M",
                "N", "O", "P", "Q", "R", "S", "T", "U", "V", "W", "X", "Y", "Z">>

LowerChars == <<"a", "b", "c", "d", "e", "f", "g", "h", "i", "j", "k", "l", "m",
                "n", "o", "p", "q", "r", "s", "t", "u", "v", "w", "x", "y", "z">>

\* str.lower() on ASCII text.
LowerChar(c) ==
    IF \E i \in 1..26 : UpperChars[i] = c
    THEN LowerChars[CHOOSE i \in 1..26 : UpperChars[i] = c]
    ELSE c

Lower(s) == [i \in 1..Len(s) |-> LowerChar(s[i])]

\* s.startswith(pre), s.endswith(suf), sub in s
StartsWith(s, pre) == Len(pre) <= Len(s) /\ SubSeq(s, 1, Len(pre)) = pre

EndsWith(s, suf) == Len(suf) <= Len(s) /\ SubSeq(s, Len(s) - Len(suf) + 1, Len(s)) = suf

Contains(s, sub) ==
    \E i \in 0..(Len(s) - Len(sub)) : SubSeq(s, i + 1, i + Len(sub)) = sub

\* The position of the last occurrence of character c in s, 0 when absent.
LastIndexOf(s, c) ==
    IF \E i \in 1..Len(s) : s[i] = c
    THEN CHOOSE i \in 1..Len(s) : s[i] = c /\ \A j \in (i + 1)..Len(s) : s[j] # c
    ELSE 0

\* PurePath(s).name: the final component of the path.
PathName(s) == SubSeq(s, LastIndexOf(s, "/") + 1, Len(s))

\* PurePath(s).stem: the final component without its last suffix; a leading
\* or a trailing dot starts no suffix.
PathStem(s) ==
    LET name == PathName(s)
        j == LastIndexOf(name, ".")
    IN  IF j > 1 /\ j < Len(name) THEN SubSeq(name, 1, j - 1) ELSE name

----------------------------------------------------------------------------
(* decompress_lz4_block: mpk.py 78-141 *)

\* The bounds of the decoder's inputs.
MaxData == 4
MaxOut == 5
MaxSeqs == 2

\* literal_length = (token >> 4) & 0x0F
LiteralNibble(token) == (token \div 16) % 16

\* match_length = (token & 0x0F) + 4
MatchLengthShort(token) == (token % 16) + 3

MatchLength(token) == (token % 16) + 4

\* The length extension loop (lines 97-102 and 123-128): add bytes while the
\* input lasts, stopping after the first byte that is not 255.
RECURSIVE ExtLen(_, _, _)
ExtLen(d, src, len) ==
    IF src < Len(d)
    THEN LET extra == d[src + 1]
         IN  IF extra # 255
             THEN [len |-> len + extra, src |-> src + 1]
             ELSE ExtLen(d, src + 1, len + extra)
    ELSE [len |-> len, src |-> src]

\* The check that the match starts inside the output (line 132).
MatchPosUnchecked(match_pos) == TRUE

MatchPosOk(match_pos) == match_pos >= 0

\* The index the i-th byte of a match is copied from (line 138).
MatchSourceStride(match_pos, i, offset) == match_pos + (i % (offset + 1))

MatchSource(match_pos, i, offset) == match_pos + (i % offset)

\* The match copy loop (lines 135-139), from iteration i on.  fault records a
\* read or a write outside the output buffer.
RECURSIVE CopyMatch(_, _, _, _, _, _, _)
CopyMatch(res, dst, n, match_pos, offset, i, match_length) ==
    IF i >= match_length \/ dst >= n
    THEN [res |-> res, dst |-> dst, fault |-> FALSE]
    ELSE LET k == MatchSource(match_pos, i, offset)
         IN  IF ~InBounds(res, k) \/ ~InBounds(res, dst)
             THEN [res |-> res, dst |-> dst, fault |-> TRUE]
             ELSE CopyMatch([res EXCEPT ![dst + 1] = res[k + 1]], dst + 1, n,
                            match_pos, offset, i + 1, match_length)

\* The literal copy (lines 105-108).
CopyLiterals(d, res, src, dst, literal_length, n) ==
    LET copy_len == Min3(literal_length, Len(d) - src, n - dst)
    IN  [res |-> [i \in 1..Len(res) |->
                    IF i > dst /\ i <= dst + copy_len
                    THEN d[src + (i - dst)] ELSE res[i]],
         src |-> src + copy_len,
         dst |-> dst + copy_len,
         fault |-> copy_len < 0 \/ dst + copy_len > Len(res)
                   \/ src + copy_len > Len(d)]

\* One pass of the outer loop (lines 91-139) from cursors (src, dst): the new
\* cursors and output, whether a break was taken, and whether an access fell
\* outside the input or the output.
LzPass(d, n, res, src, dst) ==
    LET token == d[src + 1]
        s1 == src + 1
        lit == IF LiteralNibble(token) = 15
               THEN ExtLen(d, s1, 15)
               ELSE [len |-> LiteralNibble(token), src |-> s1]
        cp == CopyLiterals(d, res, lit.src, dst, lit.len, n)
    IN  IF cp.fault
        THEN [res |-> res, src |-> lit.src, dst |-> dst, brk |-> FALSE, fault |-> TRUE]
        ELSE IF cp.dst >= n \/ cp.src + 2 > Len(d)
        THEN [res |-> cp.res, src |-> cp.src, dst |-> cp.dst, brk |-> TRUE, fault |-> FALSE]
        ELSE
        LET offset == d[cp.src + 1] + 256 * d[cp.src + 2]
            s2 == cp.src + 2
        IN  IF offset = 0
            THEN [res |-> cp.res, src |-> s2, dst |-> cp.dst, brk |-> TRUE, fault |-> FALSE]
            ELSE
            LET ml == IF MatchLength(token) = 19
                      THEN ExtLen(d, s2, 19)
                      ELSE [len |-> MatchLength(token), src |-> s2]
                match_pos == cp.dst - offset
            IN  IF ~MatchPosOk(match_pos)
                THEN [res |-> cp.res, src |-> ml.src, dst |-> cp.dst,
                      brk |-> TRUE, fault |-> FALSE]
                ELSE
                LET cm == CopyMatch(cp.res, cp.dst, n, match_pos, offset, 0, ml.len)
                IN  [res |-> cm.res, src |-> ml.src, dst |-> cm.dst,
                     brk |-> FALSE, fault |-> cm.fault]

\* The loop condition of line 89.
LzContinue == src_pos < Len(data) /\ dst_pos < uncompressed_size

Lz4Sequence ==
    /\ lz_pc = "loop"
    /\ LzContinue
    /\ LET p == LzPass(data, uncompressed_size, result, src_pos, dst_pos)
       IN  /\ result' = p.res
           /\ src_pos' = p.src
           /\ dst_pos' = p.dst
           /\ lz_pc' = IF p.fault THEN "raised" ELSE IF p.brk THEN "break" ELSE "loop"
    /\ lz_passes' = lz_passes + 1
    /\ UNCHANGED <<data, uncompressed_size, lz_out, plain>>
    /\ UNCHANGED <<ixVars, gfVars, exVars, rpVars, txVars>>

\* return bytes(result[:dst_pos]) (line 141)
Lz4Return ==
    /\ \/ lz_pc = "break"
       \/ lz_pc = "loop" /\ ~LzContinue
    /\ lz_out' = Slice(result, 0, dst_pos)
    /\ lz_pc' = "returned"
    /\ UNCHANGED <<data, uncompressed_size, result, src_pos, dst_pos, lz_passes, plain>>
    /\ UNCHANGED <<ixVars, gfVars, exVars, rpVars, txVars>>

----------------------------------------------------------------------------
(* Inputs of the decoder: LZ4 blocks as a conforming encoder lays them out   *)
(* (a sequence is a literal run, a 2-byte little-endian offset and a match   *)
(* length; the last sequence is literals only).                              *)

Lit15 == [i \in 1..15 |-> 65 + (i % 3)]

LitRuns == { <<>>, <<65, 66, 67>>, Lit15 }

LastRuns == { <<>>, <<66, 65>>, Lit15 }

MatchLens == { 4, 12, 19 }

Offsets == { 1, 2, 3 }

SeqChoices == [lit : LitRuns, off : Offsets, mlen : MatchLens]

\* The reference match copy: one byte at a time from dst - offset.
RECURSIVE RefCopy(_, _, _)
RefCopy(out, off, k) ==
    IF k = 0 THEN out ELSE RefCopy(Append(out, out[Len(out) - off + 1]), off, k - 1)

\* The plain text a list of sequences stands for.
RECURSIVE Expand(_, _)
Expand(seqs, out) ==
    IF seqs = <<>> THEN out
    ELSE LET q == Head(seqs) IN Expand(Tail(seqs), RefCopy(out \o q.lit, q.off, q.mlen))

\* Every match of the list starts inside the text produced before it.
RECURSIVE ValidSeqs(_, _)
ValidSeqs(seqs, out) ==
    IF seqs = <<>> THEN TRUE
    ELSE LET q == Head(seqs)
             o == out \o q.lit
         IN  q.off <= Len(o) /\ ValidSeqs(Tail(seqs), RefCopy(o, q.off, q.mlen))

\* The extension bytes of a length whose nibble is 15: rest = length - 15.
RECURSIVE EncExt(_)
EncExt(rest) == IF rest >= 255 THEN <<255>> \o EncExt(rest - 255) ELSE <<rest>>

EncLen(len) == IF len >= 15 THEN EncExt(len - 15) ELSE <<>>

EncSeq(q) ==
    <<16 * Min2(Len(q.lit), 15) + Min2(q.mlen - 4, 15)>>
        \o EncLen(Len(q.lit)) \o q.lit
        \o <<q.off % 256, q.off \div 256>>
        \o EncLen(q.mlen - 4)

EncLast(lit) == <<16 * Min2(Len(lit), 15)>> \o EncLen(Len(lit)) \o lit

RECURSIVE Encode(_, _)
Encode(seqs, last) ==
    IF seqs = <<>> THEN EncLast(last) ELSE EncSeq(Head(seqs)) \o Encode(Tail(seqs), last)

\* Input bytes for malformed blocks: tokens with and without extended
\* lengths, small offsets, the extension byte 255.
ByteSet == { 0, 1, 17, 31, 240, 255 }

BytesUpTo(n) == UNION { [1..k -> ByteSet] : k \in 0..n }

\* result = bytearray(uncompressed_size); src_pos = 0; dst_pos = 0 (85-87)
LzStart(d, n, s) ==
    /\ data = d
    /\ uncompressed_size = n
    /\ plain = s
    /\ result = Zeros(n)
    /\ src_pos = 0
    /\ dst_pos = 0
    /\ lz_pc = "loop"
    /\ lz_out = <<>>
    /\ lz_passes = 0

----------------------------------------------------------------------------
(* read_mpkinfo: mpk.py 9-48 *)

MaxEntries == 2

U16(n) == <<n % 256, (n \div 256) % 256>>

U32(n) == <<n % 256, (n \div 256) % 256, (n \div 65536) % 256, (n \div 16777216) % 256>>

\* struct.unpack("<H", b) and ("<I", b) of a byte string of the right length.
LE(b) == IF b = <<>> THEN 0
         ELSE b[1] + 256 * (IF Len(b) > 1 THEN b[2] ELSE 0)
                   + 65536 * (IF Len(b) > 2 THEN b[3] ELSE 0)
                   + 16777216 * (IF Len(b) > 3 THEN b[4] ELSE 0)

\* bytes.decode("utf-8", errors="replace") on ASCII bytes and on bytes that
\* start no UTF-8 sequence (0xF8..0xFF): each of the latter becomes U+FFFD.
Utf8Replace(b) == [i \in 1..Len(b) |-> IF b[i] < 128 THEN b[i] ELSE 65533]

ValidUtf8(b) == \A i \in 1..Len(b) : b[i] < 128

\* pak_index = raw // 2 (line 36)
PakIndexRaw(raw) == raw

PakIndex(raw) == raw \div 2

\* if file_length > 0 (line 38)
KeepEntryAlways(file_length) == file_length >= 0

KeepEntry(file_length) == file_length > 0

\* f.read(k) at position pos.
FRead(file, pos, k) == Slice(file, pos, pos + k)

\* f.read(4); num_files = struct.unpack("<I", f.read(4))[0] (lines 26-27)
ReadHeader ==
    /\ ix_pc = "open"
    /\ LET b == FRead(mpkinfo, 4, 4)
       IN  IF Len(b) # 4
           THEN /\ ix_pc' = "raised"
                /\ UNCHANGED <<f_pos, num_files>>
           ELSE /\ ix_pc' = "loop"
                /\ f_pos' = 8
                /\ num_files' = LE(b)
    /\ UNCHANGED <<mpkinfo, ix_done, entries, ix_src>>
    /\ UNCHANGED <<lzVars, gfVars, exVars, rpVars, txVars>>

\* One iteration of the loop over range(num_files) (lines 30-46): what it
\* reads, where it leaves the file position, and whether a struct.unpack
\* was handed too few bytes.
EntryRead(file, pos) ==
    LET nl == FRead(file, pos, 2)
        p1 == pos + Len(nl)
        name_length == LE(nl)
        name_bytes == FRead(file, p1, name_length)
        p2 == p1 + Len(name_bytes)
        ob == FRead(file, p2, 4)
        p3 == p2 + Len(ob)
        lb == FRead(file, p3, 4)
        p4 == p3 + Len(lb)
        pb == FRead(file, p4, 4)
        p5 == p4 + Len(pb)
    IN  [error |-> Len(nl) # 2 \/ Len(ob) # 4 \/ Len(lb) # 4 \/ Len(pb) # 4,
         pos |-> p5,
         entry |-> [name |-> Utf8Replace(name_bytes),
                    offset |-> LE(ob),
                    length |-> LE(lb),
                    pak_index |-> PakIndex(LE(pb))]]

ReadEntry ==
    /\ ix_pc = "loop"
    /\ ix_done < num_files
    /\ LET r == EntryRead(mpkinfo, f_pos)
       IN  IF r.error
           THEN /\ ix_pc' = "raised"
                /\ UNCHANGED <<f_pos, ix_done, entries>>
           ELSE /\ f_pos' = r.pos
                /\ ix_done' = ix_done + 1
                /\ entries' = IF KeepEntry(r.entry.length)
                              THEN Append(entries, r.entry) ELSE entries
                /\ UNCHANGED ix_pc
    /\ UNCHANGED <<mpkinfo, num_files, ix_src>>
    /\ UNCHANGED <<lzVars, gfVars, exVars, rpVars, txVars>>

\* return entries (line 48)
ReadReturn ==
    /\ ix_pc = "loop"
    /\ ix_done >= num_files
    /\ ix_pc' = "returned"
    /\ UNCHANGED <<mpkinfo, f_pos, num_files, ix_done, entries, ix_src>>
    /\ UNCHANGED <<lzVars, gfVars, exVars, rpVars, txVars>>

(* Index files: the layout of the docstring (lines 13-21). *)

IxNames == { <<97, 46, 98>>, <<99, 255>> }

IxEntryChoices == [name : IxNames, offset : {256, 70000}, length : {0, 16}, raw : {4, 5}]

IxEncodeEntry(q) ==
    U16(Len(q.name)) \o q.name \o U32(q.offset) \o U32(q.length) \o U32(q.raw)

RECURSIVE IxEncodeEntries(_)
IxEncodeEntries(qs) ==
    IF qs = <<>> THEN <<>> ELSE IxEncodeEntry(Head(qs)) \o IxEncodeEntries(Tail(qs))

IxEncode(qs) == <<0, 0, 0, 0>> \o U32(Len(qs)) \o IxEncodeEntries(qs)

\* with open(mpkinfo_path, "rb") as f; entries = [] (lines 23-25)
IxStart(file, qs) ==
    /\ mpkinfo = file
    /\ ix_src = qs
    /\ f_pos = 0
    /\ num_files = 0
    /\ ix_done = 0
    /\ entries = <<>>
    /\ ix_pc = "open"

IxLists == UNION { [1..k -> IxEntryChoices] : k \in 0..MaxEntries }

\* Well-formed index files.
InitIndex == RpIdle /\ TxIdle /\ LzIdle /\ GfIdle /\ ExIdle /\ \E qs \in IxLists : IxStart(IxEncode(qs), qs)

\* Index files cut anywhere after their header: whole, or with at least one
\* byte of the declared entries missing.
InitIndexTruncated ==
    /\ RpIdle
    /\ TxIdle
    /\ LzIdle
    /\ GfIdle
    /\ ExIdle
    /\ \E qs \in IxLists : \E cut \in 8..Len(IxEncode(qs)) :
          IxStart(Slice(IxEncode(qs), 0, cut), qs)

NextIndex == ReadHeader \/ ReadEntry \/ ReadReturn

SpecIndex == InitIndex /\ [][NextIndex]_vars

SpecIndexTruncated == InitIndexTruncated /\ [][NextIndex]_vars

----------------------------------------------------------------------------
(* get_mpk_files: mpk.py 51-68 *)

\* range(1, 1000) (line 61)
ProbeLimit == 1000

\* The longest run of numbered pack files of the small scenarios.
MaxRun == 2

Resource == <<"r", "e", "s", "o", "u", "r", "c", "e">>

Resources == <<"R", "e", "s", "o", "u", "r", "c", "e", "s">>

\* if basename.lower().startswith("resource"): basename = "Resources" (56-57)
NormalizeExact(stem) == IF Lower(stem) = Resource THEN Resources ELSE stem

Normalize(stem) == IF StartsWith(Lower(stem), Resource) THEN Resources ELSE stem

\* A pack file name: [base |-> b, n |-> 0] is <b>.mpk and [base |-> b, n |-> i],
\* i >= 1, is <b><i>.mpk.  The disk is a set of runs [base, lo, hi] of numbered
\* files that exist in the directory of the index.
Exists(path) == \E r \in disk : r.base = path.base /\ path.n >= r.lo /\ path.n <= r.hi

\* The probe of line 63 and the end of range(1, 1000).
ProbeStopsAfterGap(i) == i < ProbeLimit

ProbeGoesOn(i) == i < ProbeLimit /\ Exists([base |-> basename, n |-> i])

\* basename = mpkinfo_path.stem ... mpk_files = [parent / f"{basename}.mpk"]
\* (lines 53-59)
GetMpkFilesStart ==
    /\ gf_pc = "call"
    /\ basename' = Normalize(PathStem(mpkinfo_path))
    /\ mpk_files' = <<[base |-> basename', n |-> 0]>>
    /\ gf_i' = 1
    /\ gf_pc' = "probe"
    /\ UNCHANGED <<mpkinfo_path, disk>>
    /\ UNCHANGED <<lzVars, ixVars, exVars, rpVars, txVars>>

\* One iteration of the loop of lines 61-66 that appends.
GetMpkFilesProbe ==
    /\ gf_pc = "probe"
    /\ ProbeGoesOn(gf_i)
    /\ mpk_files' = Append(mpk_files, [base |-> basename, n |-> gf_i])
    /\ gf_i' = gf_i + 1
    /\ UNCHANGED <<mpkinfo_path, disk, basename, gf_pc>>
    /\ UNCHANGED <<lzVars, ixVars, exVars, rpVars, txVars>>

\* The break of line 66 or the end of the range, and return mpk_files.
GetMpkFilesReturn ==
    /\ gf_pc = "probe"
    /\ ~ProbeGoesOn(gf_i)
    /\ gf_pc' = "returned"
    /\ UNCHANGED <<mpkinfo_path, disk, basename, gf_i, mpk_files>>
    /\ UNCHANGED <<lzVars, ixVars, exVars, rpVars, txVars>>

(* Index file names and directories. *)

IndexNames == { <<"R", "e", "s", "o", "u", "r", "c", "e", "s", ".", "m", "p", "k", "i", "n", "f", "o">>,
                <<"r", "e", "s", "o", "u", "r", "c", "e", ".", "m", "p", "k", "i", "n", "f", "o">>,
                <<"R", "E", "S", "O", "U", "R", "C", "E", "_", "b", ".", "m", "p", "k", "i", "n", "f", "o">>,
                <<"x", "r", "e", "s", "o", "u", "r", "c", "e", ".", "m", "p", "k", "i", "n", "f", "o">>,
                <<"R", "e", "s", ".", "m", "p", "k", "i", "n", "f", "o">>,
                <<"d", "a", "t", "a", ".", "v", "2", ".", "m", "p", "k", "i", "n", "f", "o">> }

\* The files <base>1.mpk .. <base>k.mpk, and with beyond, two more after a
\* gap of one.
Runs(base, k, beyond) ==
    { [base |-> base, lo |-> 1, hi |-> k] } \cup
    (IF beyond THEN { [base |-> base, lo |-> k + 2, hi |-> k + 3] } ELSE {})

GfStart(name, d) ==
    /\ mpkinfo_path = name
    /\ disk = d
    /\ basename = <<>>
    /\ gf_i = 0
    /\ mpk_files = <<>>
    /\ gf_pc = "call"

\* Short runs under the normalized and under the written stem, with and
\* without files beyond the first gap; and for Resources.mpkinfo runs that
\* reach the end of the probed range.
InitMpkFiles ==
    /\ RpIdle
    /\ TxIdle
    /\ LzIdle
    /\ IxIdle
    /\ ExIdle
    /\ \/ \E name \in IndexNames, k \in 0..MaxRun, j \in 0..MaxRun, beyond \in BOOLEAN :
            GfStart(name, Runs(Normalize(PathStem(name)), k, beyond)
                          \cup Runs(PathStem(name), j, FALSE))
       \/ \E k \in (ProbeLimit - 2)..(ProbeLimit + 1), beyond \in BOOLEAN :
            GfStart(<<"R", "e", "s", "o", "u", "r", "c", "e", "s", ".", "m", "p", "k", "i", "n", "f", "o">>, Runs(Resources, k, beyond))

NextMpkFiles == GetMpkFilesStart \/ GetMpkFilesProbe \/ GetMpkFilesReturn

SpecMpkFiles == InitMpkFiles /\ [][NextMpkFiles]_vars

----------------------------------------------------------------------------
(* find_texture_guid, load_repository: extract.py 22-71;                     *)
(* ResourceEntry.get_guid_path, find_by_name, get_entry_info: repository.py  *)

DigitChars == <<"0", "1", "2", "3", "4", "5", "6", "7", "8", "9">>

HexChars == <<"0", "1", "2", "3", "4", "5", "6", "7", "8", "9",
              "a", "b", "c", "d", "e", "f">>

\* str(n) for n >= 0.
RECURSIVE Str(_)
Str(n) == IF n < 10 THEN <<DigitChars[n + 1]>>
          ELSE Str(n \div 10) \o <<DigitChars[(n % 10) + 1]>>

\* f"{b:02x}"
Hex2(b) == <<HexChars[(b \div 16) + 1], HexChars[(b % 16) + 1]>>

RECURSIVE HexOf(_, _, _)
HexOf(h, lo, hi) == IF lo > hi THEN <<>> ELSE Hex2(h[lo]) \o HexOf(h, lo + 1, hi)

\* get_guid_path (repository.py 21-38); h[1] is the source's h[0].
GuidPath(h) ==
    Hex2(h[1]) \o <<"/">> \o HexOf(h, 1, 4) \o <<"-">> \o HexOf(h, 5, 6) \o <<"-">>
        \o HexOf(h, 7, 8) \o <<"-">> \o HexOf(h, 9, 10) \o <<"-">> \o HexOf(h, 11, 16)

\* s.replace(sub, ""): every occurrence removed, left to right.
RECURSIVE RemoveAll(_, _)
RemoveAll(s, sub) ==
    IF s = <<>> THEN <<>>
    ELSE IF StartsWith(s, sub) THEN RemoveAll(SubSeq(s, Len(sub) + 1, Len(s)), sub)
    ELSE <<Head(s)>> \o RemoveAll(Tail(s), sub)

DotPng == <<".", "p", "n", "g">>

DotPlist == <<".", "p", "l", "i", "s", "t">>

Texture2D == <<"T", "e", "x", "t", "u", "r", "e", "2", "D">>

RepositoryName == <<"r", "e", "s", "o", "u", "r", "c", "e", ".", "r", "e", "p", "o", "s", "i", "t", "o", "r", "y">>

\* The null value of the source where the other values are records (a
\* repository, an image), and where they are exception names.
None == [kind |-> "None"]

NoError == "none"

\* No text: find_texture_guid's None, which line 157 tests like "".
NoText == <<>>

\* get_entry_info's resource_type (repository.py 157-161).
ResourceType(rp, entry) ==
    IF entry.type_index < Len(rp.resource_types)
    THEN rp.resource_types[entry.type_index + 1]
    ELSE <<"U", "n", "k", "n", "o", "w", "n", "(">> \o Str(entry.type_index) \o <<")">>

\* find_by_name(name) with exact = False (repository.py 144-145).
FindByName(rp, name) ==
    SelectSeq(rp.entries, LAMBDA e : Contains(Lower(e.logical_name), Lower(name)))

\* find_texture_guid (extract.py 58-71); a repository object is never falsy.
RECURSIVE FirstTexture(_, _)
FirstTexture(rp, matches) ==
    IF matches = <<>> THEN NoText
    ELSE IF ResourceType(rp, Head(matches)) = Texture2D
         THEN GuidPath(Head(matches).hash_bytes)
         ELSE FirstTexture(rp, Tail(matches))

FindTextureGuid(rp, texture_name) ==
    IF rp = None THEN NoText
    ELSE FirstTexture(rp, FindByName(rp, RemoveAll(texture_name, DotPng)))

(* A blob is what extract_file and the decompression make of a pack entry:   *)
(* read is "ok" or "oserror" (the pack file cannot be opened), magic the     *)
(* first bytes ("none", "CCCC", "CCCC_ZZZ4", "ZZZ4"), sized whether the      *)
(* 4 bytes of the uncompressed size are all there, short whether the LZ4     *)
(* block yields fewer bytes than that size (decompress_lz4_block returns     *)
(* result[:dst_pos], line 141, and no caller compares its length), and       *)
(* payload the bytes after the envelope: of kind "empty", "garbage", or what *)
(* they parse to (a "catalog", a "plist", a "texture").                      *)

\* The envelope of load_repository (lines 32-46): the exception it raises,
\* if any.
RepoEnvelopeError(blob) ==
    IF blob.read # "ok" THEN "OSError"
    ELSE IF blob.magic \in {"CCCC_ZZZ4", "ZZZ4"} /\ ~blob.sized THEN "struct.error"
    ELSE NoError

\* The envelope of the descriptor and texture blobs (lines 138-142, 164-168).
BlobError(blob) ==
    IF blob.read # "ok" THEN "OSError"
    ELSE IF blob.magic = "ZZZ4" /\ ~blob.sized THEN "struct.error"
    ELSE NoError

\* The scan of lines 28-47: the first entry named *resource.repository* whose
\* pack file exists decides; [kind |-> "none"] is repo_data = None.
RECURSIVE ScanRepository(_, _)
ScanRepository(es, npacks) ==
    IF es = <<>> THEN [kind |-> "none"]
    ELSE LET entry == Head(es)
         IN  IF Contains(Lower(entry.name), RepositoryName) /\ entry.pak_index < npacks
             THEN IF RepoEnvelopeError(entry.blob) # NoError
                  THEN [kind |-> "raise", exc |-> RepoEnvelopeError(entry.blob)]
                  ELSE [kind |-> "data", repo_data |-> entry.blob.payload]
             ELSE ScanRepository(Tail(es), npacks)

\* load_repository (lines 22-55): a repository, None, or an exception that
\* leaves the function.
LoadRepository(index, npacks) ==
    LET s == ScanRepository(index, npacks)
    IN  IF s.kind = "raise" THEN s
        ELSE IF s.kind = "none" \/ s.repo_data.kind = "empty"
        THEN [kind |-> "value", repo |-> None]
        ELSE IF s.repo_data.kind # "catalog" THEN [kind |-> "value", repo |-> None]
        ELSE [kind |-> "value", repo |-> s.repo_data]

\* if not repo (line 109)
NotRepoNever(r) == FALSE

NotRepo(r) == r = None

----------------------------------------------------------------------------
(* extract_sprites: extract.py 91-219 *)

MaxAtlases == 2

\* The texture lookup of lines 154-171: the atlas (an image or None), or the
\* exception that leaves it.
RECURSIVE ScanTexture(_, _, _)
ScanTexture(es, npacks, guid_path) ==
    IF es = <<>> THEN [kind |-> "value", atlas |-> None]
    ELSE LET tex_entry == Head(es)
         IN  IF Contains(tex_entry.name, guid_path) \/ EndsWith(tex_entry.name, guid_path)
             THEN IF tex_entry.pak_index >= npacks
                  THEN [kind |-> "raise", exc |-> "IndexError"]
                  ELSE IF BlobError(tex_entry.blob) # NoError
                  THEN [kind |-> "raise", exc |-> BlobError(tex_entry.blob)]
                  ELSE [kind |-> "value",
                        atlas |-> IF tex_entry.blob.payload.kind # "texture"
                                  THEN None ELSE tex_entry.blob.payload.image]
             ELSE ScanTexture(Tail(es), npacks, guid_path)

TextureLookup(r, es, npacks, texture_filename) ==
    LET guid_path == FindTextureGuid(r, texture_filename)
    IN  IF guid_path = NoText THEN [kind |-> "value", atlas |-> None]
        ELSE ScanTexture(es, npacks, guid_path)

\* Lines 137-147: the descriptor read and parsed, or the exception raised.
ReadDescriptor(plist_entry, npacks) ==
    IF plist_entry.pak_index >= npacks THEN [kind |-> "raise", exc |-> "IndexError"]
    ELSE IF BlobError(plist_entry.blob) # NoError
    THEN [kind |-> "raise", exc |-> BlobError(plist_entry.blob)]
    ELSE IF plist_entry.blob.payload.kind # "plist"
    THEN [kind |-> "raise", exc |-> "InvalidFileException"]
    ELSE [kind |-> "value",
          frames |-> plist_entry.blob.payload.frames,
          texture_filename |-> plist_entry.blob.payload.texture_filename]

\* except Exception (lines 212, 215)
CaughtOnlyValueError(exc) == exc = "ValueError"

Caught(exc) == exc \in {"IndexError", "OSError", "struct.error",
                        "InvalidFileException", "ValueError"}

NullAtlasFailuresPlusOne(fs) == Len(fs) + 1

NullAtlasFailuresOne(fs) == 1

\* The count a descriptor with a null atlas adds to sprites_failed (line 177).
NullAtlasFailures(fs) == Len(fs)

\* Lines 199-206: the counter after this sighting of base_name, and the name
\* the sprite is saved under.
NextCount(names, base_name) ==
    IF base_name \in DOMAIN names THEN names[base_name] + 1 ELSE 0

SaveNameFromOne(base_name, count) == base_name \o <<"_">> \o Str(count + 1) \o DotPng

SaveName(base_name, count) ==
    IF count = 0 THEN base_name \o DotPng
    ELSE base_name \o <<"_">> \o Str(count) \o DotPng

\* The box handed to atlas.crop (lines 192-197): (left, upper, right, lower).
CropBoxUnswapped(rect, rotated) ==
    <<rect[1], rect[2], rect[1] + rect[3], rect[2] + rect[4]>>

CropBox(rect, rotated) ==
    IF rotated THEN <<rect[1], rect[2], rect[1] + rect[4], rect[2] + rect[3]>>
    ELSE <<rect[1], rect[2], rect[1] + rect[3], rect[2] + rect[4]>>

\* Image.crop: the region has the size of the box, whether or not the box
\* lies inside the image (what lies outside is filled with zeros).
CropSize(box) == <<box[3] - box[1], box[4] - box[2]>>

\* Image.rotate(90, expand=True): a quarter turn counter-clockwise, the
\* canvas enlarged to hold it, so width and height change places.
Rotate90Expand(size) == <<size[2], size[1]>>

\* The (width, height) of the sprite of lines 192-197.
SpriteSize(rect, rotated) ==
    IF rotated THEN Rotate90Expand(CropSize(CropBox(rect, rotated)))
    ELSE CropSize(CropBox(rect, rotated))

\* The frame of lines 183-213: [kind |-> "fail"] when it is counted as a
\* failure before the file name is chosen, else whether the save succeeds.
\* rect holds the integers of the frame string: <<x, y, w, h>>, or fewer, and
\* then parse_frame_string raises IndexError.
FrameOutcome(frame) ==
    IF Len(frame.rect) < 4 THEN "parse_error"
    ELSE IF frame.rect[3] <= 0 \/ frame.rect[4] <= 0 THEN "empty_rect"
    ELSE IF ~frame.writable THEN "save_error"
    ELSE "saved"

\* Lines 102-105.
ExCheckIndex ==
    /\ pc = "start"
    /\ IF ~world.index_exists
       THEN pc' = "raised" /\ error' = "FileNotFoundError"
       ELSE pc' = "load" /\ error' = error
    /\ ev' = "check"
    /\ UNCHANGED <<world, repo, plist_entries, output_dir_created, png_files,
                   sprite_names, sprites_extracted, sprites_failed, texture_cache,
                   idx, frames, fi, atlas, ret, total_frames, unparsed, tex_log,
                   emitted, entries, mpk_files>>
    /\ UNCHANGED <<lzVars, ixOwn, gfOwn, rpVars, txVars>>

\* Lines 107-110.
ExLoadRepository ==
    /\ pc = "load"
    /\ LET r == LoadRepository(world.index, world.npacks)
       IN  IF r.kind = "raise"
           THEN pc' = "raised" /\ error' = r.exc /\ repo' = repo
           ELSE IF NotRepo(r.repo)
           THEN pc' = "raised" /\ error' = "RuntimeError" /\ repo' = repo
           ELSE pc' = "index" /\ error' = error /\ repo' = r.repo
    /\ ev' = "load"
    /\ UNCHANGED <<world, plist_entries, output_dir_created, png_files,
                   sprite_names, sprites_extracted, sprites_failed, texture_cache,
                   idx, frames, fi, atlas, ret, total_frames, unparsed, tex_log,
                   emitted, entries, mpk_files>>
    /\ UNCHANGED <<lzVars, ixOwn, gfOwn, rpVars, txVars>>

\* Lines 113-130: the index and the pack list are read again, the descriptors
\* selected, the output directory made, the counters and caches set up.
ExPrepare ==
    /\ pc = "index"
    /\ entries' = world.index
    /\ mpk_files' = [j \in 1..world.npacks |-> [base |-> Resources, n |-> j - 1]]
    /\ plist_entries' = SelectSeq(world.index, LAMBDA e : EndsWith(e.name, DotPlist))
    /\ output_dir_created' = TRUE
    /\ sprite_names' = <<>>
    /\ sprites_extracted' = 0
    /\ sprites_failed' = 0
    /\ texture_cache' = <<>>
    /\ idx' = 0
    /\ pc' = "atlas"
    /\ ev' = "prepare"
    /\ UNCHANGED <<world, repo, error, png_files, frames, fi, atlas, ret,
                   total_frames, unparsed, tex_log, emitted>>
    /\ UNCHANGED <<lzVars, ixOwn, gfOwn, rpVars, txVars>>

\* One descriptor up to its frame loop (lines 132-178 and 215-216).
ExDescriptor ==
    /\ pc = "atlas"
    /\ idx < Len(plist_entries)
    /\ LET d == ReadDescriptor(plist_entries[idx + 1], Len(mpk_files))
           hit == d.kind = "value" /\ d.texture_filename \in DOMAIN texture_cache
           look == IF d.kind = "value" /\ d.frames # <<>> /\ d.texture_filename # <<>> /\ ~hit
                   THEN TextureLookup(repo, entries, Len(mpk_files), d.texture_filename)
                   ELSE [kind |-> "skip"]
           cache == IF look.kind = "value"
                    THEN [t \in DOMAIN texture_cache \cup {d.texture_filename} |->
                            IF t = d.texture_filename THEN look.atlas ELSE texture_cache[t]]
                    ELSE texture_cache
       IN  /\ texture_cache' = cache
           /\ tex_log' = IF look.kind = "skip" THEN tex_log
                         ELSE Append(tex_log,
                                     [file |-> d.texture_filename,
                                      guid |-> FindTextureGuid(repo, d.texture_filename),
                                      outcome |-> IF look.kind = "raise" THEN "raised"
                                                  ELSE IF look.atlas = None THEN "none"
                                                  ELSE "image"])
           /\ total_frames' = total_frames + (IF d.kind = "value" THEN Len(d.frames) ELSE 0)
           /\ unparsed' = unparsed + (IF d.kind = "raise" THEN 1 ELSE 0)
           /\ IF d.kind = "raise" \/ look.kind = "raise"
              THEN LET exc == IF d.kind = "raise" THEN d.exc ELSE look.exc
                   IN  IF Caught(exc)
                       THEN /\ sprites_failed' = sprites_failed + 1
                            /\ idx' = idx + 1
                            /\ ev' = "descriptor_exception"
                            /\ UNCHANGED <<pc, error, frames, fi, atlas>>
                       ELSE /\ pc' = "raised"
                            /\ error' = exc
                            /\ ev' = "abort"
                            /\ UNCHANGED <<sprites_failed, idx, frames, fi, atlas>>
              ELSE IF d.frames = <<>> \/ d.texture_filename = <<>>
              THEN /\ idx' = idx + 1
                   /\ ev' = "skip"
                   /\ UNCHANGED <<pc, error, sprites_failed, frames, fi, atlas>>
              ELSE IF cache[d.texture_filename] = None
              THEN /\ sprites_failed' = sprites_failed + NullAtlasFailures(d.frames)
                   /\ idx' = idx + 1
                   /\ ev' = "null_atlas"
                   /\ UNCHANGED <<pc, error, frames, fi, atlas>>
              ELSE /\ frames' = d.frames
                   /\ atlas' = cache[d.texture_filename]
                   /\ fi' = 0
                   /\ pc' = "frame"
                   /\ ev' = "frames"
                   /\ UNCHANGED <<error, sprites_failed, idx>>
    /\ UNCHANGED <<world, repo, plist_entries, output_dir_created, png_files,
                   sprite_names, sprites_extracted, ret, emitted, entries, mpk_files>>
    /\ UNCHANGED <<lzVars, ixOwn, gfOwn, rpVars, txVars>>

\* One frame of the current descriptor (lines 181-213); after the last one
\* the loop over the descriptors goes on.
ExFrame ==
    /\ pc = "frame"
    /\ fi < Len(frames)
    /\ LET frame == frames[fi + 1]
           out == FrameOutcome(frame)
           base_name == PathStem(frame.key)
           count == NextCount(sprite_names, base_name)
           save_name == SaveName(base_name, count)
           named == out \in {"save_error", "saved"}
           exc == IF out = "parse_error" THEN "IndexError" ELSE "OSError"
       IN  /\ sprite_names' = IF named
                              THEN [b \in DOMAIN sprite_names \cup {base_name} |->
                                      IF b = base_name THEN count ELSE sprite_names[b]]
                              ELSE sprite_names
           /\ emitted' = IF named
                         THEN Append(emitted,
                                     [key |-> frame.key, name |-> save_name,
                                      saved |-> out = "saved",
                                      rect |-> frame.rect, rotated |-> frame.rotated,
                                      box |-> CropBox(frame.rect, frame.rotated),
                                      size |-> SpriteSize(frame.rect, frame.rotated),
                                      atlas |-> atlas])
                         ELSE emitted
           /\ png_files' = IF out = "saved" THEN png_files \cup {save_name} ELSE png_files
           /\ IF out \in {"parse_error", "save_error"} /\ ~Caught(exc)
              THEN /\ pc' = "raised"
                   /\ error' = exc
                   /\ ev' = "abort"
                   /\ UNCHANGED <<sprites_extracted, sprites_failed, fi, idx>>
              ELSE /\ sprites_extracted' = sprites_extracted + (IF out = "saved" THEN 1 ELSE 0)
                   /\ sprites_failed' = sprites_failed + (IF out = "saved" THEN 0 ELSE 1)
                   /\ ev' = IF out = "saved" THEN "frame_saved"
                            ELSE IF out = "empty_rect" THEN "frame_empty"
                            ELSE "frame_exception"
                   /\ error' = error
                   /\ IF fi + 1 < Len(frames)
                      THEN fi' = fi + 1 /\ pc' = pc /\ idx' = idx
                      ELSE fi' = 0 /\ pc' = "atlas" /\ idx' = idx + 1
    /\ UNCHANGED <<world, repo, plist_entries, output_dir_created, texture_cache,
                   frames, atlas, ret, total_frames, unparsed, tex_log, entries,
                   mpk_files>>
    /\ UNCHANGED <<lzVars, ixOwn, gfOwn, rpVars, txVars>>

\* return sprites_extracted, sprites_failed (lines 218-219)
ExReturn ==
    /\ pc = "atlas"
    /\ idx >= Len(plist_entries)
    /\ pc' = "done"
    /\ ret' = <<sprites_extracted, sprites_failed>>
    /\ ev' = "return"
    /\ UNCHANGED <<world, repo, error, plist_entries, output_dir_created, png_files,
                   sprite_names, sprites_extracted, sprites_failed, texture_cache,
                   idx, frames, fi, atlas, total_frames, unparsed, tex_log,
                   emitted, entries, mpk_files>>
    /\ UNCHANGED <<lzVars, ixOwn, gfOwn, rpVars, txVars>>

(* The worlds extract_sprites runs in: whether Resources.mpkinfo exists, the  *)
(* number of pack files get_mpk_files finds, and the entries read_mpkinfo    *)
(* returns, each with the blob its (pak_index, offset, length) reads.        *)

Image(w, h) == [kind |-> "image", width |-> w, height |-> h]

Empty == [kind |-> "empty"]

Garbage == [kind |-> "garbage"]

Texture(img) == [kind |-> "texture", image |-> img]

Blob(magic, payload) ==
    [read |-> "ok", magic |-> magic, sized |-> TRUE, short |-> FALSE, payload |-> payload]

\* A compressed blob whose LZ4 block yields fewer bytes than its header
\* declares; payload is what those bytes are.
Short(magic, payload) ==
    [read |-> "ok", magic |-> magic, sized |-> TRUE, short |-> TRUE, payload |-> payload]

Unsized(magic) ==
    [read |-> "ok", magic |-> magic, sized |-> FALSE, short |-> FALSE, payload |-> Empty]

Unreadable ==
    [read |-> "oserror", magic |-> "none", sized |-> TRUE, short |-> FALSE, payload |-> Empty]

Hash(k) == [i \in 1..16 |-> (17 * k + 13 * i) % 256]

HashA == <<12, 54, 57, 139, 144, 249, 71, 203, 185, 143, 110, 70, 154, 120, 140, 46>>

Record(name, h, type_index) ==
    [logical_name |-> name, hash_bytes |-> h, folder_index |-> 0, type_index |-> type_index]

\* A catalog: "a" resolves past a material of a matching name to HashA, the
\* names b to e, g and h to textures of their own, "f" to a record whose
\* type index is outside the type table, "z" to nothing.
CatalogA ==
    [kind |-> "catalog",
     resource_types |-> <<Texture2D, <<"M", "a", "t", "e", "r", "i", "a", "l">>>>,
     folder_paths |-> <<<<"u", "i">>>>,
     entries |-> <<Record(<<"u", "i", "/", "a", "_", "m", "a", "t">>, Hash(1), 1),
                   Record(<<"U", "I", "/", "A">>, HashA, 0),
                   Record(<<"b">>, Hash(2), 0),
                   Record(<<"c">>, Hash(3), 0),
                   Record(<<"d">>, Hash(4), 0),
                   Record(<<"e">>, Hash(5), 0),
                   Record(<<"f">>, Hash(6), 9),
                   Record(<<"g">>, Hash(7), 0),
                   Record(<<"h">>, Hash(8), 0)>>]

\* What parse_repository makes of the first bytes of CatalogA when they end
\* inside its third record: the two tables and the records before it.
CatalogAPrefix == [CatalogA EXCEPT !.entries = SubSeq(CatalogA.entries, 1, 2)]

Entry(name, pak_index, blob) == [name |-> name, pak_index |-> pak_index, blob |-> blob]

\* The texture of "a" decodes; that of "b" does not; that of "c" is in a pack
\* file that does not exist; that of "d" cannot be read; "e" has no entry;
\* those of "g" and "h" decompress to fewer bytes than declared: what is left
\* of "g" still holds a slice that decodes, what is left of "h" does not.
TexEntries ==
    <<Entry(GuidPath(HashA), 0, Blob("ZZZ4", Texture(Image(16, 16)))),
      Entry(<<"t", "e", "x", "/">> \o GuidPath(Hash(2)), 0, Blob("none", Garbage)),
      Entry(GuidPath(Hash(3)), 7, Blob("none", Texture(Image(16, 16)))),
      Entry(GuidPath(Hash(4)), 0, Unreadable),
      Entry(GuidPath(Hash(7)), 0, Short("ZZZ4", Texture(Image(8, 8)))),
      Entry(GuidPath(Hash(8)), 0, Short("ZZZ4", Garbage))>>

TexNames == { <<"a", ".", "p", "n", "g">>, <<"b", ".", "p", "n", "g">>, <<"c", ".", "p", "n", "g">>, <<"d", ".", "p", "n", "g">>, <<"e", ".", "p", "n", "g">>, <<"z", ".", "p", "n", "g">> }

\* A texture name that holds ".png" twice, and those of the textures that
\* decompress short.
MoreTexNames == { <<"a", ".", "p", "n", "g", ".", "p", "n", "g">>, <<"g", ".", "p", "n", "g">>, <<"h", ".", "p", "n", "g">> }

Frame(key, rect, rotated, writable) ==
    [key |-> key, rect |-> rect, rotated |-> rotated, writable |-> writable]

\* Frame lists; the keys of one list are distinct, as the keys of a dict are.
FrameLists ==
    { <<Frame(<<"a", ".", "p", "n", "g">>, <<2, 2, 8, 8>>, FALSE, TRUE)>>,
      <<Frame(<<"a", ".", "p", "n", "g">>, <<0, 0, 4, 6>>, FALSE, TRUE),
        Frame(<<"x", "/", "a", ".", "j", "p", "g">>, <<4, 0, 4, 6>>, TRUE, TRUE),
        Frame(<<"a", "_", "1", ".", "p", "n", "g">>, <<0, 8, 2, 2>>, FALSE, TRUE)>>,
      <<Frame(<<"b", ".", "p", "n", "g">>, <<0, 0>>, FALSE, TRUE),
        Frame(<<"c", ".", "p", "n", "g">>, <<0, 0, 0, 4>>, FALSE, TRUE),
        Frame(<<"d", ".", "p", "n", "g">>, <<0, 0, 4, 4>>, FALSE, FALSE),
        Frame(<<"a", ".", "p", "n", "g">>, <<0, 0, 4, 4>>, TRUE, TRUE)>> }

\* Frames whose crop box leaves the 16 x 16 atlas of "a".
EdgeFrames ==
    <<Frame(<<"e", ".", "p", "n", "g">>, <<12, 12, 8, 8>>, FALSE, TRUE),
      Frame(<<"f", ".", "p", "n", "g">>, <<12, 12, 2, 8>>, TRUE, TRUE)>>

Plist(fs, texture_filename) ==
    Blob("none", [kind |-> "plist", frames |-> fs, texture_filename |-> texture_filename])

\* A compressed descriptor that decompresses to fewer bytes than declared.
ShortPlist(fs, texture_filename) ==
    Short("ZZZ4", [kind |-> "plist", frames |-> fs, texture_filename |-> texture_filename])

\* A descriptor: its pack file index and blob.
DescriptorChoices ==
    { [pak_index |-> 7, blob |-> Plist(<<>>, <<>>)],
      [pak_index |-> 0, blob |-> Blob("ZZZ4", Garbage)],
      [pak_index |-> 0, blob |-> Unsized("ZZZ4")],
      [pak_index |-> 0, blob |-> Plist(<<>>, <<"a", ".", "p", "n", "g">>)],
      [pak_index |-> 0, blob |-> Plist(<<Frame(<<"a", ".", "p", "n", "g">>, <<2, 2, 8, 8>>, FALSE, TRUE)>>, <<>>)] }
    \cup { [pak_index |-> 0, blob |-> Plist(<<Frame(<<"a", ".", "p", "n", "g">>, <<2, 2, 8, 8>>, FALSE, TRUE)>>, t)] : t \in TexNames }
    \cup { [pak_index |-> 0, blob |-> Plist(fs, t)] :
               fs \in FrameLists, t \in { <<"a", ".", "p", "n", "g">>, <<"b", ".", "p", "n", "g">> } }
    \cup { [pak_index |-> 0, blob |-> Plist(EdgeFrames, <<"a", ".", "p", "n", "g">>)] }
    \cup { [pak_index |-> 0, blob |-> Plist(<<Frame(<<"a", ".", "p", "n", "g">>, <<2, 2, 8, 8>>, FALSE, TRUE)>>, t)] : t \in MoreTexNames }
    \cup { [pak_index |-> 0, blob |-> ShortPlist(<<Frame(<<"a", ".", "p", "n", "g">>, <<2, 2, 8, 8>>, FALSE, TRUE)>>, <<"a", ".", "p", "n", "g">>)],
           [pak_index |-> 0, blob |-> Short("ZZZ4", Garbage)] }

PlistEntries(ds) ==
    [i \in 1..Len(ds) |-> Entry(<<"u", "i", "/">> \o Str(i) \o DotPlist, ds[i].pak_index, ds[i].blob)]

RepoEntry(blob) == Entry(RepositoryName, 0, blob)

\* The catalog entries of the index: none, unusable, unreadable, unparsable,
\* and good ones under each envelope.
RepoVariants ==
    { <<>>,
      <<Entry(RepositoryName, 7, Blob("none", CatalogA))>>,
      <<Entry(<<"D", "a", "t", "a", "/", "R", "e", "s", "o", "u", "r", "c", "e", ".", "R", "e", "p", "o", "s", "i", "t", "o", "r", "y", ".", "b", "i", "n">>, 7, Blob("none", Garbage)), Entry(<<"D", "a", "t", "a", "/", "R", "e", "s", "o", "u", "r", "c", "e", ".", "R", "e", "p", "o", "s", "i", "t", "o", "r", "y", ".", "b", "i", "n">>, 0, Blob("CCCC", CatalogA))>>,
      <<RepoEntry(Blob("none", Garbage))>>,
      <<RepoEntry(Blob("CCCC_ZZZ4", Garbage)), RepoEntry(Blob("none", CatalogA))>>,
      <<RepoEntry(Blob("ZZZ4", Empty))>>,
      <<RepoEntry(Unsized("CCCC_ZZZ4"))>>,
      <<RepoEntry(Unsized("ZZZ4"))>>,
      <<RepoEntry(Unreadable)>>,
      <<RepoEntry(Blob("none", CatalogA))>>,
      <<RepoEntry(Blob("CCCC_ZZZ4", CatalogA))>>,
      <<RepoEntry(Blob("ZZZ4", CatalogA))>>,
      <<RepoEntry(Short("CCCC_ZZZ4", CatalogAPrefix))>>,
      <<RepoEntry(Short("ZZZ4", Garbage))>> }

World(exists, npacks, repos, ds) ==
    [index_exists |-> exists, npacks |-> npacks,
     index |-> repos \o TexEntries \o PlistEntries(ds)]

ExStart(w) ==
    /\ world = w
    /\ pc = "start"
    /\ error = NoError
    /\ repo = None
    /\ plist_entries = <<>>
    /\ output_dir_created = FALSE
    /\ png_files = {}
    /\ sprite_names = <<>>
    /\ sprites_extracted = 0
    /\ sprites_failed = 0
    /\ texture_cache = <<>>
    /\ idx = 0
    /\ frames = <<>>
    /\ fi = 0
    /\ atlas = None
    /\ ret = <<>>
    /\ total_frames = 0
    /\ unparsed = 0
    /\ tex_log = <<>>
    /\ emitted = <<>>
    /\ ev = "call"

\* Every catalog variant with and without the index file and with one or two
\* pack files, before one descriptor; and every list of descriptors behind a
\* good catalog.
InitExtract ==
    /\ RpIdle
    /\ TxIdle
    /\ LzIdle
    /\ IxIdle
    /\ GfIdle
    /\ \/ \E exists \in BOOLEAN, npacks \in 1..2, repos \in RepoVariants :
            ExStart(World(exists, npacks, repos,
                          <<[pak_index |-> 0,
                             blob |-> Plist(<<Frame(<<"a", ".", "p", "n", "g">>, <<2, 2, 8, 8>>, FALSE, TRUE)>>, <<"a", ".", "p", "n", "g">>)]>>))
       \/ \E k \in 0..MaxAtlases : \E ds \in [1..k -> DescriptorChoices] :
            ExStart(World(TRUE, 1, <<RepoEntry(Blob("ZZZ4", CatalogA))>>, ds))

NextExtract ==
    ExCheckIndex \/ ExLoadRepository \/ ExPrepare \/ ExDescriptor \/ ExFrame \/ ExReturn

SpecExtract == InitExtract /\ [][NextExtract]_vars

----------------------------------------------------------------------------
(* Specifications of the decoder *)

\* Arbitrary bytes with any expected size, and every prefix of a valid block
\* with the size of its plain text.
InitLz4 ==
    /\ RpIdle
    /\ TxIdle
    /\ IxIdle
    /\ GfIdle
    /\ ExIdle
    /\ \/ \E d \in BytesUpTo(MaxData), n \in 0..MaxOut : LzStart(d, n, <<>>)
       \/ \E k \in 0..1 : \E seqs \in [1..k -> SeqChoices], last \in LastRuns :
         /\ ValidSeqs(seqs, <<>>)
         /\ LET s == Expand(seqs, <<>>) \o last
                b == Encode(seqs, last)
            IN  \E cut \in 0..Len(b) : LzStart(Slice(b, 0, cut), Len(s), s)

\* Whole valid blocks with the size of their plain text.
InitLz4RoundTrip ==
    /\ RpIdle
    /\ TxIdle
    /\ IxIdle
    /\ GfIdle
    /\ ExIdle
    /\ \E k \in 0..MaxSeqs : \E seqs \in [1..k -> SeqChoices], last \in LastRuns :
        /\ ValidSeqs(seqs, <<>>)
        /\ LET s == Expand(seqs, <<>>) \o last
           IN  LzStart(Encode(seqs, last), Len(s), s)

NextLz4 == Lz4Sequence \/ Lz4Return

SpecLz4 == InitLz4 /\ [][NextLz4]_vars

SpecLz4RoundTrip == InitLz4RoundTrip /\ [][NextLz4]_vars

----------------------------------------------------------------------------
(* ResourceRepository._parse: repository.py 52-137 *)

MaxRecords == 2

\* struct.unpack_from(fmt, data, at) of k bytes raises struct.error unless
\* the k bytes lie inside data.
CanUnpack(d, at, k) == at + k <= Len(d)

UnpackFrom(d, at, k) == LE(Slice(d, at, at + k))

\* str.split(";") of decoded text (code points): at least one piece.
RECURSIVE Split(_, _)
Split(t, sep) ==
    IF \A i \in 1..Len(t) : t[i] # sep THEN <<t>>
    ELSE LET i == CHOOSE j \in 1..Len(t) : t[j] = sep /\ \A k \in 1..(j - 1) : t[k] # sep
         IN  <<SubSeq(t, 1, i - 1)>> \o Split(SubSeq(t, i + 1, Len(t)), sep)

Semicolon == 59

\* except (struct.error, IndexError) (line 135)
RpCaughtOnlyStructError(exc) == exc = "struct.error"

RpCaught(exc) == exc \in {"struct.error", "IndexError"}

\* Lines 56-84: the header and the two tables.  The reads of lines 57-67 and
\* 77 are outside any try block.
RpHeader ==
    /\ rp_pc = "header"
    /\ IF ~CanUnpack(rp_data, 0, 4) \/ ~CanUnpack(rp_data, 4, 2)
          \/ ~CanUnpack(rp_data, 6, 4) \/ ~CanUnpack(rp_data, 10, 2)
       THEN /\ rp_pc' = "raised"
            /\ UNCHANGED <<rp_offset, resource_types, folder_paths>>
       ELSE LET types_length == UnpackFrom(rp_data, 10, 2)
                types_bytes == Slice(rp_data, 12, 12 + types_length)
                at == 12 + types_length
            IN  IF ~CanUnpack(rp_data, at, 2)
                THEN /\ rp_pc' = "raised"
                     /\ resource_types' = Split(Utf8Replace(types_bytes), Semicolon)
                     /\ UNCHANGED <<rp_offset, folder_paths>>
                ELSE LET paths_length == UnpackFrom(rp_data, at, 2)
                         paths_bytes == Slice(rp_data, at + 2, at + 2 + paths_length)
                     IN  /\ resource_types' = Split(Utf8Replace(types_bytes), Semicolon)
                         /\ folder_paths' = Split(Utf8Replace(paths_bytes), Semicolon)
                         /\ rp_offset' = at + 2 + paths_length
                         /\ rp_pc' = "entries"
    /\ UNCHANGED <<rp_data, rp_entries, rp_spans, rp_src>>
    /\ UNCHANGED <<lzVars, ixVars, gfVars, exVars, txVars>>

\* The body of the try block (lines 89-133) from offset o: the exception it
\* raises, or the entry and the offset after it.
ParseEntry(d, o) ==
    IF ~CanUnpack(d, o, 2) \/ ~CanUnpack(d, o + 2, 2)
    THEN [kind |-> "raise", exc |-> "struct.error"]
    ELSE IF ~InBounds(d, o + 4) THEN [kind |-> "raise", exc |-> "IndexError"]
    ELSE LET hash_bytes == Slice(d, o + 5, o + 21)
         IN  IF ~CanUnpack(d, o + 21, 2) THEN [kind |-> "raise", exc |-> "struct.error"]
             ELSE LET name_length == UnpackFrom(d, o + 21, 2)
                      name_bytes == Slice(d, o + 23, o + 23 + name_length)
                      q == o + 23 + name_length
                  IN  IF ~CanUnpack(d, q, 2) \/ ~CanUnpack(d, q + 2, 2)
                         \/ ~CanUnpack(d, q + 4, 2)
                      THEN [kind |-> "raise", exc |-> "struct.error"]
                      ELSE [kind |-> "entry",
                            entry |-> [logical_name |-> Utf8Replace(name_bytes),
                                       hash_bytes |-> hash_bytes,
                                       folder_index |-> UnpackFrom(d, q, 2),
                                       type_index |-> UnpackFrom(d, q + 2, 2)],
                            next |-> q + 6 + UnpackFrom(d, q + 4, 2) * 16]

\* One pass of the loop of lines 87-137.
RpEntry ==
    /\ rp_pc = "entries"
    /\ rp_offset < Len(rp_data)
    /\ LET r == ParseEntry(rp_data, rp_offset)
       IN  IF r.kind = "entry"
           THEN /\ rp_entries' = Append(rp_entries, r.entry)
                /\ rp_spans' = Append(rp_spans, [start |-> rp_offset, end |-> r.next])
                /\ rp_offset' = r.next
                /\ rp_pc' = rp_pc
           ELSE /\ rp_pc' = IF RpCaught(r.exc) THEN "break" ELSE "raised"
                /\ UNCHANGED <<rp_entries, rp_spans, rp_offset>>
    /\ UNCHANGED <<rp_data, resource_types, folder_paths, rp_src>>
    /\ UNCHANGED <<lzVars, ixVars, gfVars, exVars, txVars>>

\* The loop ends: its condition fails, or a caught exception broke it.
RpReturn ==
    /\ \/ rp_pc = "entries" /\ rp_offset >= Len(rp_data)
       \/ rp_pc = "break"
    /\ rp_pc' = "done"
    /\ UNCHANGED <<rp_data, rp_offset, resource_types, folder_paths, rp_entries,
                   rp_spans, rp_src>>
    /\ UNCHANGED <<lzVars, ixVars, gfVars, exVars, txVars>>

(* Catalogs: the bytes a writer of the format makes of two tables and a list *)
(* of records, whole or cut short anywhere.                                  *)

\* "T;M" and "ui"
RpTypes == <<84, 59, 77>>

RpPaths == <<117, 105>>

\* name bytes (the last with a byte that starts no UTF-8 sequence), type
\* index, number of related hashes
RpRecordChoices ==
    { [name |-> <<>>, hash |-> Hash(1), folder |-> 0, type |-> 0, related |-> 0],
      [name |-> <<97>>, hash |-> Hash(2), folder |-> 0, type |-> 1, related |-> 1],
      [name |-> <<98, 250>>, hash |-> Hash(3), folder |-> 3, type |-> 9, related |-> 0] }

RpEncodeRecord(q) ==
    U16(1) \o U16(2) \o <<3>> \o q.hash \o U16(Len(q.name)) \o q.name
        \o U16(q.folder) \o U16(q.type) \o U16(q.related) \o Zeros(16 * q.related)

RECURSIVE RpEncodeRecords(_)
RpEncodeRecords(qs) ==
    IF qs = <<>> THEN <<>> ELSE RpEncodeRecord(Head(qs)) \o RpEncodeRecords(Tail(qs))

RpEncodeTables ==
    U32(1) \o U16(0) \o U32(0) \o U16(Len(RpTypes)) \o RpTypes
        \o U16(Len(RpPaths)) \o RpPaths

RpEncode(qs) == RpEncodeTables \o RpEncodeRecords(qs)

RpLists == UNION { [1..k -> RpRecordChoices] : k \in 0..MaxRecords }

RpStart(d, qs) ==
    /\ rp_data = d
    /\ rp_src = qs
    /\ rp_offset = 0
    /\ resource_types = <<>>
    /\ folder_paths = <<>>
    /\ rp_entries = <<>>
    /\ rp_spans = <<>>
    /\ rp_pc = "header"

InitRepository ==
    /\ LzIdle
    /\ IxIdle
    /\ GfIdle
    /\ ExIdle
    /\ TxIdle
    /\ \E qs \in RpLists : \E cut \in 0..Len(RpEncode(qs)) :
          RpStart(Slice(RpEncode(qs), 0, cut), qs)

NextRepository == RpHeader \/ RpEntry \/ RpReturn

SpecRepository == InitRepository /\ [][NextRepository]_vars

----------------------------------------------------------------------------
(* decode_texture, MessiahTexture: texture.py 130-253 *)

MaxSlices == 2

\* len(self.data) < 40 (line 142)
HeaderSize == 40

\* A slice header is 16 bytes (lines 150, 153).
SliceHeaderSize == 16

\* offset += 16; offset += slice_info.size - 16 (lines 155-159)
NextSliceOffsetPastBlock(o, size) == o + SliceHeaderSize + size

NextSliceOffset(o, size) == o + SliceHeaderSize + (size - SliceHeaderSize)

\* decode's offset of the slice at mip (lines 174-176).
RECURSIVE SliceDataOffset(_, _)
SliceDataOffset(sl, mip) ==
    IF mip = 0 THEN HeaderSize ELSE SliceDataOffset(sl, mip - 1) + sl[mip].size

\* load_texture and the start of _parse_header (lines 142-148, 226-229, 244):
\* too short an input raises ValueError, which load_texture turns into None.
TxLoad ==
    /\ tx_pc = "load"
    /\ IF Len(tx_data) < HeaderSize
       THEN /\ tx_result' = "None"
            /\ tx_pc' = "done"
            /\ UNCHANGED <<slice_count, tx_offset, tx_i>>
       ELSE /\ slice_count' = UnpackFrom(tx_data, 38, 2)
            /\ tx_offset' = HeaderSize
            /\ tx_i' = 0
            /\ tx_pc' = "slices"
            /\ tx_result' = tx_result
    /\ UNCHANGED <<tx_data, slices, mip_level, tx_block_offset, tx_decodes>>
    /\ UNCHANGED <<lzVars, ixVars, gfVars, exVars, rpVars>>

\* One pass of the loop of lines 149-159; at is the offset the header was
\* read at.
TxSlice ==
    /\ tx_pc = "slices"
    /\ tx_i < slice_count
    /\ IF tx_offset + SliceHeaderSize > Len(tx_data)
       THEN /\ tx_pc' = "parsed"
            /\ UNCHANGED <<slices, tx_offset, tx_i>>
       ELSE LET size == UnpackFrom(tx_data, tx_offset, 4)
            IN  /\ slices' = Append(slices, [size |-> size, at |-> tx_offset])
                /\ tx_offset' = NextSliceOffset(tx_offset, size)
                /\ tx_i' = tx_i + 1
                /\ tx_pc' = tx_pc
    /\ UNCHANGED <<tx_data, slice_count, mip_level, tx_block_offset, tx_result,
                   tx_decodes>>
    /\ UNCHANGED <<lzVars, ixVars, gfVars, exVars, rpVars>>

\* decode_texture with mip_level = -1 (lines 245-253) and decode (161-221):
\* with no slice self.slices[-1] raises IndexError; the decoding of the block
\* read at the offset raises or gives an image; every exception gives None.
TxDecode ==
    /\ \/ tx_pc = "slices" /\ tx_i >= slice_count
       \/ tx_pc = "parsed"
    /\ mip_level' = Len(slices) - 1
    /\ IF Len(slices) = 0
       THEN /\ tx_result' = "None"
            /\ tx_block_offset' = tx_block_offset
       ELSE /\ tx_block_offset' = SliceDataOffset(slices, Len(slices) - 1)
            /\ tx_result' = IF tx_decodes THEN "image" ELSE "None"
    /\ tx_pc' = "done"
    /\ UNCHANGED <<tx_data, slice_count, slices, tx_offset, tx_i, tx_decodes>>
    /\ UNCHANGED <<lzVars, ixVars, gfVars, exVars, rpVars>>

(* Texture bytes: a 40-byte header with a slice count, then slices, each a   *)
(* 16-byte header with a declared size and a block; whole or cut short.      *)

\* declared size and bytes of block after the header: a size of 0, a header
\* alone, a header with its block, a size that claims a block that is not
\* there
TxSliceChoices ==
    { [size |-> 0, block |-> 0], [size |-> 16, block |-> 0],
      [size |-> 20, block |-> 4], [size |-> 20, block |-> 0] }

TxEncodeSlice(q) == U32(q.size) \o Zeros(12) \o Zeros(q.block)

RECURSIVE TxEncodeSlices(_)
TxEncodeSlices(qs) ==
    IF qs = <<>> THEN <<>> ELSE TxEncodeSlice(Head(qs)) \o TxEncodeSlices(Tail(qs))

TxEncode(count, qs) == Zeros(38) \o U16(count) \o TxEncodeSlices(qs)

TxLists == UNION { [1..k -> TxSliceChoices] : k \in 0..MaxSlices }

TxStart(d, decodes) ==
    /\ tx_data = d
    /\ tx_decodes = decodes
    /\ slice_count = 0
    /\ slices = <<>>
    /\ tx_offset = 0
    /\ tx_i = 0
    /\ mip_level = 0
    /\ tx_block_offset = 0
    /\ tx_result = "none"
    /\ tx_pc = "load"

InitTexture ==
    /\ LzIdle
    /\ IxIdle
    /\ GfIdle
    /\ ExIdle
    /\ RpIdle
    /\ \E qs \in TxLists, count \in 0..(MaxSlices + 1), decodes \in BOOLEAN :
          \E cut \in 39..Len(TxEncode(count, qs)) :
              TxStart(Slice(TxEncode(count, qs), 0, cut), decodes)

NextTexture == TxLoad \/ TxSlice \/ TxDecode

SpecTexture == InitTexture /\ [][NextTexture]_vars

----------------------------------------------------------------------------
(* Claims *)

\* The counters are those of a run past its preconditions.
Running == pc \in {"atlas", "frame", "done"}

\* C1 as stated: after every descriptor and at the end of the run,
\* extracted + failed <= total_frames, the frames of the descriptors
\* processed so far, for every sequence of descriptors, those whose blob
\* cannot be read or parsed included.
C1_CountersWithinFrames ==
    Running => sprites_extracted + sprites_failed <= total_frames

\* C1 amended: a descriptor whose blob cannot be read or parsed has no frames
\* to count and adds one failure, so extracted + failed is at most
\* total_frames plus the number of such descriptors.
C1_CountersWithinFramesAndUnparsed ==
    Running => sprites_extracted + sprites_failed <= total_frames + unparsed

\* A run over an unparsable descriptor and one of four frames (one saved,
\* three failed) has returned (1, 4).
C1_Witness ==
    /\ pc = "done"
    /\ unparsed = 1
    /\ total_frames = 4
    /\ tex_log # <<>>
    /\ ret = <<1, 4>>

\* C2 as stated: a texture lookup that failed, for any reason, leaves a null
\* entry for its texture_filename in the cache, and no later descriptor of
\* the run looks the same texture_filename up again.
C2_NegativeTextureCache ==
    \A i \in 1..Len(tex_log) :
        tex_log[i].outcome # "image" =>
            /\ tex_log[i].file \in DOMAIN texture_cache
            /\ texture_cache[tex_log[i].file] = None
            /\ \A j \in (i + 1)..Len(tex_log) : tex_log[j].file # tex_log[i].file

\* The base name of a frame key: its final path component without its last
\* extension.
KeyBase(key) ==
    LET name == IF \E i \in 1..Len(key) : key[i] = "/"
                THEN SubSeq(key, 1 + CHOOSE i \in 1..Len(key) :
                                key[i] = "/" /\ \A j \in (i + 1)..Len(key) : key[j] # "/",
                            Len(key))
                ELSE key
        dots == { i \in 2..(Len(name) - 1) : name[i] = "." }
    IN  IF dots = {} THEN name
        ELSE SubSeq(name, 1, (CHOOSE i \in dots : \A j \in dots : j <= i) - 1)

\* The number of the first i sprites that reached the emit step whose base
\* name is b.
Sightings(b, i) == Cardinality({ j \in 1..i : KeyBase(emitted[j].key) = b })

\* C3: over the whole run the N-th sprite of base name b to reach the emit
\* step is written to b.png when N = 1 and to b_<N-1>.png when N >= 2, and
\* the counter kept for b is the number of its sightings so far less one (so
\* it never decreases and is not reset between descriptors).
C3_NthSightingName ==
    /\ \A i \in 1..Len(emitted) :
          LET b == KeyBase(emitted[i].key)
              n == Sightings(b, i)
          IN  emitted[i].name = IF n = 1 THEN b \o DotPng
                                ELSE b \o <<"_">> \o Str(n - 1) \o DotPng
    /\ DOMAIN sprite_names = { KeyBase(emitted[i].key) : i \in 1..Len(emitted) }
    /\ \A b \in DOMAIN sprite_names : sprite_names[b] = Sightings(b, Len(emitted)) - 1

\* In the second descriptor of a run the third sprite of base name a has
\* been written to a_2.png, after a.png and a_1.png in the first.
C3_Witness ==
    /\ idx >= 1
    /\ Len(emitted) = 4
    /\ emitted[2].key = <<"x", "/", "a", ".", "j", "p", "g">>
    /\ emitted[2].name = <<"a", "_", "1", ".", "p", "n", "g">>
    /\ emitted[4].key = <<"a", ".", "p", "n", "g">>
    /\ emitted[4].name = <<"a", "_", "2", ".", "p", "n", "g">>
    /\ <<"a", "_", "2", ".", "p", "n", "g">> \in png_files

\* The descriptor at idx cannot be read or parsed.
DescriptorUnreadable ==
    /\ pc = "atlas"
    /\ idx < Len(plist_entries)
    /\ LET e == plist_entries[idx + 1]
       IN  \/ e.pak_index >= Len(mpk_files)
           \/ e.blob.read # "ok"
           \/ e.blob.magic = "ZZZ4" /\ ~e.blob.sized
           \/ e.blob.payload.kind # "plist"

\* C4: once the preconditions have passed the run never aborts.  A step that
\* meets an exception in a descriptor outside its frame loop adds exactly 1
\* to failed, leaves extracted alone and goes on to the next descriptor in
\* index order; a step that meets an exception in a frame adds exactly 1 to
\* failed, leaves extracted alone and goes on to the next frame of the same
\* descriptor; every step advances the (descriptor, frame) position; and the
\* run ends by returning (extracted, failed) after the last descriptor.
C4_FailureIsolation ==
    [][ /\ pc \in {"atlas", "frame"} => pc' \in {"atlas", "frame", "done"}
        /\ (DescriptorUnreadable \/ ev' = "descriptor_exception") /\ pc = "atlas" =>
              /\ sprites_failed' = sprites_failed + 1
              /\ sprites_extracted' = sprites_extracted
              /\ idx' = idx + 1
              /\ pc' = "atlas"
        /\ pc = "frame" /\ ev' = "frame_exception" =>
              /\ sprites_failed' = sprites_failed + 1
              /\ sprites_extracted' = sprites_extracted
              /\ IF fi + 1 < Len(frames)
                 THEN pc' = "frame" /\ fi' = fi + 1 /\ idx' = idx /\ frames' = frames
                 ELSE pc' = "atlas" /\ idx' = idx + 1
        /\ pc \in {"atlas", "frame"} =>
              \/ pc' = "done" /\ idx = Len(plist_entries)
                    /\ ret' = <<sprites_extracted, sprites_failed>>
              \/ pc' # "done" /\ idx' = idx + 1
              \/ pc' = "frame" /\ idx' = idx /\ (pc = "atlas" \/ fi' = fi + 1)
      ]_vars

\* A run has returned (1, 4): its first descriptor raised IndexError in the
\* texture lookup, its second had a frame string that does not parse, an
\* empty rectangle, a failed save and one sprite saved.
C4_Witness ==
    /\ pc = "done"
    /\ Len(tex_log) = 2
    /\ tex_log[1].outcome = "raised"
    /\ tex_log[2].outcome = "image"
    /\ unparsed = 0
    /\ ret = <<1, 4>>

\* An entry load_repository can use: named *resource.repository*, in a pack
\* file that exists.
Usable(e) == Contains(Lower(e.name), RepositoryName) /\ e.pak_index < world.npacks

\* The first usable entry's blob is read and unwrapped without error but
\* holds no catalog: no bytes, or bytes parse_repository raises on.
CatalogUnparsable ==
    \E i \in 1..Len(world.index) :
        /\ Usable(world.index[i])
        /\ \A j \in 1..(i - 1) : ~Usable(world.index[j])
        /\ world.index[i].blob.read = "ok"
        /\ world.index[i].blob.sized
        /\ world.index[i].blob.payload.kind \in {"empty", "garbage"}

\* C5: when the index file is absent, or no usable entry named
\* *resource.repository* exists, or the catalog bytes cannot be parsed, the
\* run ends in FileNotFoundError or RuntimeError with the output directory
\* not created and no PNG written.
C5_FatalPreconditions ==
    /\ pc \notin {"start", "load"}
    /\ \/ ~world.index_exists
       \/ \A i \in 1..Len(world.index) : ~Usable(world.index[i])
       \/ CatalogUnparsable
    => /\ pc = "raised"
       /\ error \in {"FileNotFoundError", "RuntimeError"}
       /\ ~output_dir_created
       /\ png_files = {}
       /\ ret = <<>>

\* With the index present and its only catalog entry in a pack file that
\* does not exist, the run has ended in RuntimeError.
C5_Witness ==
    /\ pc = "raised"
    /\ error = "RuntimeError"
    /\ world.index_exists
    /\ Contains(Lower(world.index[1].name), RepositoryName)
    /\ world.index[1].pak_index = 7
    /\ \A i \in 1..Len(world.index) : ~Usable(world.index[i])
    /\ ~output_dir_created

\* C6: decompress_lz4_block is total and bounded.  On every input byte
\* string and every expected size n >= 0 no access falls outside the input
\* or the output buffer (nothing is raised), the cursors stay inside their
\* buffers, every pass of the loop consumes at least one input byte (so the
\* loop ends after at most len(data) passes), and the bytes returned are
\* result[:dst_pos], at most n of them.
C6_Lz4TotalBounded ==
    /\ lz_pc \in {"loop", "break", "returned"}
    /\ src_pos \in 0..Len(data)
    /\ dst_pos \in 0..uncompressed_size
    /\ Len(result) = uncompressed_size
    /\ lz_passes <= src_pos
    /\ lz_pc = "returned" =>
          /\ Len(lz_out) <= uncompressed_size
          /\ lz_out = Slice(result, 0, dst_pos)

\* A block whose match starts 16 bytes before the beginning of the output
\* has been decoded: the one literal is returned, nothing is raised.
C6_Witness ==
    /\ lz_pc = "returned"
    /\ data = <<17, 0, 17, 0>>
    /\ uncompressed_size = 5
    /\ lz_out = <<0>>

\* C7: LZ4 round trip.  For every block a conforming encoder lays out from a
\* list of sequences (matches overlapping their own output included), with
\* uncompressed_size the length of the plain text, the decoder returns the
\* plain text, which the reference byte-by-byte copy from dst - offset
\* defines.
C7_Lz4RoundTrip == lz_pc = "returned" => lz_out = plain

\* "ABCABCABCABCABC" as three literals and a match of offset 3, length 12,
\* has been decoded.
C7_Witness ==
    /\ lz_pc = "returned"
    /\ data = <<56, 65, 66, 67, 3, 0, 0>>
    /\ plain = [i \in 1..15 |-> 65 + ((i - 1) % 3)]
    /\ lz_out = plain

\* The entries of the file an index was written from that the reader is to
\* return: those of non-zero length, in order, with raw pack index halved.
RECURSIVE IxExpected(_)
IxExpected(qs) ==
    IF qs = <<>> THEN <<>>
    ELSE LET q == Head(qs)
         IN  (IF q.length = 0 THEN <<>>
              ELSE <<[name |-> q.name, offset |-> q.offset, length |-> q.length,
                      pak_index |-> q.raw \div 2]>>) \o IxExpected(Tail(qs))

\* The entries of qs that lie whole within the first n bytes of their
\* encoding.
RECURSIVE IxWhole(_, _)
IxWhole(qs, n) ==
    IF qs = <<>> \/ Len(IxEncodeEntry(Head(qs))) > n THEN <<>>
    ELSE <<Head(qs)>> \o IxWhole(Tail(qs), n - Len(IxEncodeEntry(Head(qs))))

\* C8 as stated: on an index cut short inside its entries read_mpkinfo does
\* not raise, and what it returns is the list of the entries read whole
\* before the cut, without those of length zero.
C8_TruncatedIndexReturns ==
    Len(mpkinfo) < Len(IxEncode(ix_src)) =>
        /\ ix_pc # "raised"
        /\ ix_pc = "returned" => entries = IxExpected(IxWhole(ix_src, Len(mpkinfo) - 8))

\* C9: for a well-formed index (the declared entries all present, names
\* valid UTF-8) read_mpkinfo returns exactly the entries of non-zero length,
\* in index order, with name, offset and length as written and
\* pack_index = raw // 2.
C9_WellFormedIndex ==
    (\A i \in 1..Len(ix_src) : ValidUtf8(ix_src[i].name)) =>
        /\ ix_pc # "raised"
        /\ ix_pc = "returned" =>
              /\ entries = IxExpected(ix_src)
              /\ \A i \in 1..Len(entries) : entries[i].length > 0

\* The index of scenario 1 with a second entry of length zero and odd raw
\* pack index has been read.
C9_Witness ==
    /\ ix_pc = "returned"
    /\ Len(ix_src) = 2
    /\ ix_src[1] = [name |-> <<97, 46, 98>>, offset |-> 256, length |-> 16, raw |-> 5]
    /\ ix_src[2].length = 0
    /\ entries = <<[name |-> <<97, 46, 98>>, offset |-> 256, length |-> 16, pak_index |-> 2]>>

\* The largest K such that every numbered file <base>1.mpk .. <base>K.mpk is
\* on the disk.
LongestRun(base) ==
    CHOOSE k \in 0..(ProbeLimit + 4) :
        /\ ~Exists([base |-> base, n |-> k + 1])
        /\ \A j \in 1..k : Exists([base |-> base, n |-> j])

\* The list <base>.mpk, <base>1.mpk, ..., <base>k.mpk.
PackList(base, k) == [j \in 1..(k + 1) |-> [base |-> base, n |-> j - 1]]

\* The stem the claim probes with.
ClaimedBase(name) ==
    IF StartsWith(Lower(PathStem(name)), Resource) THEN Resources ELSE PathStem(name)

CatalogEntry(i) ==
    /\ i \in 1..Len(world.index)
    /\ Usable(world.index[i])
    /\ \A j \in 1..(i - 1) : ~Usable(world.index[j])

\* C11 as stated: a blob whose LZ4 block yields fewer bytes than its ZZZ4
\* header declares is a decoding failure: a short catalog is never parsed
\* into the catalog the run uses, a short texture never becomes an atlas, and
\* the frames of a short descriptor are never processed.
C11_ShortOutputIsFailure ==
    /\ \A i \in 1..Len(world.index) :
          CatalogEntry(i) /\ world.index[i].blob.short => repo = None
    /\ \A i \in 1..Len(tex_log) :
          (\E k \in 1..Len(world.index) :
              /\ tex_log[i].guid # NoText
              /\ EndsWith(world.index[k].name, tex_log[i].guid)
              /\ world.index[k].blob.short)
          => tex_log[i].outcome # "image"
    /\ pc = "frame" => ~plist_entries[idx + 1].blob.short
\* Where the bytes of the j-th record written begin, and where its fields up
\* to the related-hash count end (2 + 2 + 1 + 16 + 2 + name + 2 + 2 + 2).
RpRecordStart(j) == Len(RpEncode(SubSeq(rp_src, 1, j - 1)))

RpFieldsEnd(j) == RpRecordStart(j) + 29 + Len(rp_src[j].name)

\* The entry a record parses to.
RpDecoded(q) ==
    [logical_name |-> Utf8Replace(q.name), hash_bytes |-> q.hash,
     folder_index |-> q.folder, type_index |-> q.type]

\* C12: for catalog bytes that hold the header and the two tables, parsing
\* never raises; the entries kept are the first records written, in their
\* order; and when the bytes end inside the fields of the j-th record (from
\* its first unknown u16 to its related-hash count) parsing ends with exactly
\* the j - 1 records before it.
C12_TruncationTolerant ==
    Len(rp_data) >= Len(RpEncodeTables) =>
        /\ rp_pc # "raised"
        /\ Len(rp_entries) <= Len(rp_src)
        /\ \A i \in 1..Len(rp_entries) : rp_entries[i] = RpDecoded(rp_src[i])
        /\ rp_pc = "done" =>
              \A j \in 1..Len(rp_src) :
                  RpRecordStart(j) < Len(rp_data) /\ Len(rp_data) < RpFieldsEnd(j)
                  => Len(rp_entries) = j - 1

\* The bytes ended at the flag byte of the second record, and parsing has
\* ended with the first record kept.
C12_Witness ==
    /\ rp_pc = "done"
    /\ Len(rp_src) = 2
    /\ Len(rp_data) = RpRecordStart(2) + 4
    /\ rp_entries = <<RpDecoded(rp_src[1])>>

\* C19 as stated: every record kept in the parsed catalog was read
\* completely: its encoding, from the first unknown u16 through the last of
\* its related hashes, lies within the catalog bytes, and its hash is 16
\* bytes long; a record whose related hashes run past the end is not kept.
C19_RetainedRecordsComplete ==
    \A i \in 1..Len(rp_entries) :
        /\ rp_spans[i].end <= Len(rp_data)
        /\ Len(rp_entries[i].hash_bytes) = 16
\* The crop box lies within the atlas image.
WithinAtlas(box, img) ==
    /\ 0 <= box[1] /\ box[1] <= box[3] /\ box[3] <= img.width
    /\ 0 <= box[2] /\ box[2] <= box[4] /\ box[4] <= img.height

\* C13 as stated: a frame is counted as extracted only if its rectangle has
\* positive width and height, its crop box lies within the atlas image and
\* its PNG was written; extracted counts exactly those frames.
C13_ExtractedOnlyWithinBounds ==
    /\ \A i \in 1..Len(emitted) :
          emitted[i].saved =>
              /\ emitted[i].rect[3] > 0
              /\ emitted[i].rect[4] > 0
              /\ WithinAtlas(emitted[i].box, emitted[i].atlas)
    /\ sprites_extracted = Cardinality({ i \in 1..Len(emitted) : emitted[i].saved })

\* C14: every sprite that reached the emit step, of a frame (x, y, w, h)
\* with w > 0 and h > 0, has dimensions (w, h), rotated or not; a rotated
\* frame is cropped with box (x, y, x + h, y + w), a frame that is not with
\* box (x, y, x + w, y + h).
C14_SpriteDimensions ==
    \A i \in 1..Len(emitted) :
        LET x == emitted[i].rect[1]
            y == emitted[i].rect[2]
            w == emitted[i].rect[3]
            h == emitted[i].rect[4]
        IN  /\ w > 0 /\ h > 0
            /\ emitted[i].size = <<w, h>>
            /\ emitted[i].box = IF emitted[i].rotated THEN <<x, y, x + h, y + w>>
                                ELSE <<x, y, x + w, y + h>>

\* A rotated frame of 4 x 6 and one of 4 x 6 that is not rotated have both
\* been emitted with those dimensions.
C14_Witness ==
    /\ Len(emitted) >= 2
    /\ ~emitted[1].rotated /\ emitted[1].rect = <<0, 0, 4, 6>> /\ emitted[1].size = <<4, 6>>
    /\ emitted[2].rotated /\ emitted[2].rect = <<4, 0, 4, 6>> /\ emitted[2].size = <<4, 6>>
    /\ emitted[2].box = <<4, 0, 10, 4>>
    /\ emitted[2].saved
\* The descriptor at idx parses, has frames and a texture name, and its atlas
\* is null: the cache holds None for the name, or the name is not cached and
\* the lookup ends with None.
NullAtlasCase ==
    /\ pc = "atlas"
    /\ idx < Len(plist_entries)
    /\ ~DescriptorUnreadable
    /\ LET p == plist_entries[idx + 1].blob.payload
       IN  /\ p.frames # <<>>
           /\ p.texture_filename # <<>>
           /\ IF p.texture_filename \in DOMAIN texture_cache
              THEN texture_cache[p.texture_filename] = None
              ELSE TextureLookup(repo, entries, Len(mpk_files), p.texture_filename)
                       = [kind |-> "value", atlas |-> None]

\* C15: processing a descriptor whose atlas is null (a lookup that has just
\* ended with None, or a cached None) adds exactly the number of its frames
\* to failed, leaves extracted, the sprite-name counters and the PNG files
\* written as they were, and goes on to the next descriptor.
C15_NullAtlasEffect ==
    [][ NullAtlasCase \/ ev' = "null_atlas" =>
          /\ sprites_failed' =
                sprites_failed + Len(plist_entries[idx + 1].blob.payload.frames)
          /\ sprites_extracted' = sprites_extracted
          /\ sprite_names' = sprite_names
          /\ png_files' = png_files
          /\ emitted' = emitted
          /\ idx' = idx + 1
          /\ pc' = "atlas"
      ]_vars

\* The second descriptor of a run found None cached for its texture: its
\* three frames were added to the one frame the first had failed.
C15_Witness ==
    /\ ev = "null_atlas"
    /\ idx = 2
    /\ Len(tex_log) = 1
    /\ tex_log[1].outcome = "none"
    /\ sprites_failed = 4
    /\ sprites_extracted = 0
    /\ png_files = {}
\* texture_filename with only a trailing ".png" removed.
TrailingPngRemoved(t) ==
    IF EndsWith(t, DotPng) THEN SubSeq(t, 1, Len(t) - Len(DotPng)) ELSE t

\* The catalog records, by position, whose logical name contains the stem
\* without regard to case and whose type index resolves to "Texture2D".
TextureRecords(stem) ==
    { i \in 1..Len(repo.entries) :
        /\ Contains(Lower(repo.entries[i].logical_name), Lower(stem))
        /\ repo.entries[i].type_index < Len(repo.resource_types)
        /\ repo.resource_types[repo.entries[i].type_index + 1] = Texture2D }

\* C16 as stated: every lookup made by the run found the guid_path of the
\* first catalog record whose logical name contains the texture file name
\* less a trailing ".png" and whose type is "Texture2D", and nothing when
\* there is no such record.
C16_FirstTextureRecord ==
    \A i \in 1..Len(tex_log) :
        LET found == TextureRecords(TrailingPngRemoved(tex_log[i].file))
        IN  tex_log[i].guid =
                IF found = {} THEN NoText
                ELSE GuidPath(repo.entries[CHOOSE k \in found :
                                              \A j \in found : k <= j].hash_bytes)
\* C18 as stated: within one run no two sprites are written to the same
\* file name, so the number of PNG files written equals extracted.
C18_SaveNamesDistinct ==
    /\ \A i, j \in 1..Len(emitted) :
          i # j /\ emitted[i].saved /\ emitted[j].saved
          => emitted[i].name # emitted[j].name
    /\ Cardinality(png_files) = sprites_extracted
RECURSIVE TxSizes(_)
\* The sum of the slice_size fields of the first n headers parsed.
TxSizes(n) == IF n = 0 THEN 0 ELSE TxSizes(n - 1) + slices[n].size

\* C17: for texture bytes of at least 40 bytes the parser keeps at most
\* slice_count headers, the i-th (from 0) read at 40 plus the slice_size of
\* the headers before it and lying whole within the input; it stops only
\* after slice_count headers or at a header whose 16 bytes would pass the
\* end of the input; decode takes the last header parsed and reads its block
\* at the offset that header was parsed at; with no header parsed the result
\* is null; and no exception leaves decode_texture.
C17_SliceWalk ==
    /\ tx_pc # "raised"
    /\ Len(tx_data) >= 40 =>
          /\ Len(slices) <= UnpackFrom(tx_data, 38, 2)
          /\ \A i \in 1..Len(slices) :
                /\ slices[i].at = 40 + TxSizes(i - 1)
                /\ slices[i].at + 16 <= Len(tx_data)
                /\ slices[i].size = UnpackFrom(tx_data, slices[i].at, 4)
          /\ tx_pc \in {"parsed", "done"} =>
                \/ Len(slices) = UnpackFrom(tx_data, 38, 2)
                \/ 40 + TxSizes(Len(slices)) + 16 > Len(tx_data)
          /\ tx_pc = "done" /\ Len(slices) > 0 =>
                /\ mip_level = Len(slices) - 1
                /\ tx_block_offset = slices[Len(slices)].at
          /\ tx_pc = "done" /\ Len(slices) = 0 => tx_result = "None"

\* A texture that declares three slices and holds two, of 20 and 16 bytes:
\* both headers were kept and the block of the second was read at 60.
C17_Witness ==
    /\ tx_pc = "done"
    /\ slice_count = 3
    /\ Len(slices) = 2
    /\ slices[1] = [size |-> 20, at |-> 40]
    /\ slices[2] = [size |-> 16, at |-> 60]
    /\ tx_block_offset = 60
    /\ tx_result = "image"
====
